---- MODULE Spec2Model ----
(***************************************************************************)
(* Credit ledger and generation dispatcher of the promptlylearn backend.   *)
(*                                                                         *)
(* One user row (the credit fields live on User), the Course/Roadmap rows  *)
(* created by dispatches, the Celery queue, and a bounded number of HTTP   *)
(* requests, each with its own SQLAlchemy session.  A session keeps the    *)
(* attributes of the User object it loaded until a commit expires them;    *)
(* the next attribute access then reloads the row.                         *)
(*                                                                         *)
(* A request is cut into steps at the reads and writes of User.credits     *)
(* and User.credits_reset_at, the only state two requests share: the       *)
(* reload of the User object, the commit of ensure_credits_are_valid, the  *)
(* tests of consume_credits, and the commit of the deduction.  What a      *)
(* route does after consume_credits returned (its own row, its own job)    *)
(* touches nothing another request reads and is part of the step that      *)
(* ends consume_credits.                                                   *)
(*                                                                         *)
(* Time is counted in half days, so timedelta(days=1) is DAY = 2.          *)
(***************************************************************************)
EXTENDS Integers, FiniteSets, Sequences, TLC

VARIABLES clock, user, calls, started, rows, queue, expected, last,
          results, polled, recorded, quizzes,
          worker, lesson, published, relay,
          mailbox, polls

(* The result backend of the job queue, the last task-status response, the
   rows on which a task-status poll has recorded the job's outcome, and the
   quiz:<task_id> keys of the store. *)
taskVars == <<results, polled, recorded, quizzes>>

(* The lesson-stream worker, the Lesson row, the messages published on the
   stream's channel, and the relay of the streaming response. *)
streamVars == <<worker, lesson, published, relay>>

(* The chat reply key of the store and the chat_stream polls. *)
chatVars == <<mailbox, polls>>

(* What the requests of the credit ledger and the dispatcher leave alone. *)
restVars == <<taskVars, streamVars, chatVars>>

vars == <<clock, user, calls, started, rows, queue, expected, last, restVars>>

----------------------------------------------------------------------------
(* Bounds *)

MaxCalls == 2

MaxClock == 2

(* Program constants *)

DAILY_CREDITS == 200

DAY == 2

(* Celery's max_retries when a task declares autoretry_for and no limit. *)
MaxRetries == 3

QUIZ_TTL_SECONDS == 3600

(* The seconds that pass in one step of the store's clock. *)
StoreTickSeconds == 1800

None == -1

----------------------------------------------------------------------------
(* Inputs *)

Memberships ==
  {<<"free", "INACTIVE">>, <<"premium", "ACTIVE">>,
   <<"premium", "CANCELED">>}

InitCredits == {0, 15}

InitResetAt == {None, 1}

InitActiveUntil == {None, 1}

(* Payloads of the admin credit update; schema.UpdateUserCredits asks
   credits >= 0. *)
AdminCredits == {-5, 0}

AdminResetAt == {None, 1}

ConsumeEndpoints == {"r_course", "r_roadmap", "r_lesson", "r_quiz"}

MainEndpoints == {"m_course", "m_roadmap", "m_lesson", "m_quiz"}

Endpoints == ConsumeEndpoints \cup MainEndpoints \cup {"get_me"}

CallIds == 1..MaxCalls

----------------------------------------------------------------------------
(* The endpoints *)

Kind(ep) ==
  CASE ep \in {"r_course", "m_course"} -> "course_outline"
    [] ep \in {"r_roadmap", "m_roadmap"} -> "roadmap_outline"
    [] ep \in {"r_lesson", "m_lesson"} -> "lesson_stream"
    [] ep \in {"r_quiz", "m_quiz"} -> "quiz_generation"
    [] OTHER -> "none"

Durable(ep) == Kind(ep) \in {"course_outline", "roadmap_outline"}

GENERATION_COST(ep) ==
  CASE ep = "r_course" -> 10
    [] ep = "r_roadmap" -> 10
    [] ep = "r_lesson" -> 20
    [] ep = "r_quiz" -> 5
    [] OTHER -> 0

(* A roadmap route whose except clause logs the exception and carries on. *)
AfterConsumeRaiseSwallowed(ep) == IF ep = "r_roadmap" THEN "dispatch" ELSE "done"

(* Where a route goes when consume_credits raises: no route catches the
   exception and carries on. *)
AfterConsumeRaise(ep) == "done"

CreditFailureResponse(ep) ==
  CASE ep = "r_lesson" -> "402"
    [] ep = "r_quiz" -> "200_error_body"
    [] OTHER -> "unhandled"

EnqueueFailureResponse(ep) ==
  IF ep \in {"r_quiz", "m_quiz"} THEN "500" ELSE "unhandled"

----------------------------------------------------------------------------
(* The credit helper *)

IsPremiumActive(u) ==
  u.membership_plan = "premium" /\ u.membership_status = "ACTIVE"

(* ensure_credits_are_valid without the early return for premium users. *)
ensure_credits_are_valid_no_exemption(u, now) ==
  IF u.credits_reset_at = None
  THEN [u EXCEPT !.credits = DAILY_CREDITS, !.credits_reset_at = now + DAY]
  ELSE IF now >= u.credits_reset_at /\ u.credits < DAILY_CREDITS
  THEN [u EXCEPT !.credits = DAILY_CREDITS, !.credits_reset_at = now + DAY]
  ELSE u

(* ensure_credits_are_valid topping the balance up at an elapsed deadline
   and leaving the deadline where it was. *)
ensure_credits_are_valid_top_up(u, now) ==
  IF IsPremiumActive(u)
  THEN u
  ELSE IF u.credits_reset_at = None
  THEN [u EXCEPT !.credits = DAILY_CREDITS, !.credits_reset_at = now + DAY]
  ELSE IF now >= u.credits_reset_at
  THEN [u EXCEPT !.credits = @ + DAILY_CREDITS]
  ELSE u

(* ensure_credits_are_valid resetting at every elapsed deadline, whatever the
   balance. *)
ensure_credits_are_valid_any_balance(u, now) ==
  IF IsPremiumActive(u)
  THEN u
  ELSE IF u.credits_reset_at = None
  THEN [u EXCEPT !.credits = DAILY_CREDITS, !.credits_reset_at = now + DAY]
  ELSE IF now >= u.credits_reset_at
  THEN [u EXCEPT !.credits = DAILY_CREDITS, !.credits_reset_at = now + DAY]
  ELSE u

ensure_credits_are_valid(u, now) ==
  IF IsPremiumActive(u)
  THEN u
  ELSE IF u.credits_reset_at = None
  THEN [u EXCEPT !.credits = DAILY_CREDITS, !.credits_reset_at = now + DAY]
  ELSE IF now >= u.credits_reset_at /\ u.credits < DAILY_CREDITS
  THEN [u EXCEPT !.credits = DAILY_CREDITS, !.credits_reset_at = now + DAY]
  ELSE u

(* is_unlimited without the membership_active_until disjunct. *)
UnlimitedPremiumOnly(u, now) == IsPremiumActive(u)

Unlimited(u, now) ==
  \/ IsPremiumActive(u)
  \/ u.membership_active_until # None /\ u.membership_active_until > now

(* The expired-membership test applied to premium plans only. *)
MembershipExpiredPremiumOnly(u, now) ==
  /\ u.membership_plan = "premium"
  /\ u.membership_active_until # None
  /\ u.membership_active_until < now

MembershipExpired(u, now) ==
  u.membership_active_until # None /\ u.membership_active_until < now

(* The balance test written with <= . *)
NotEnoughCreditsOffByOne(u, cost) == u.credits <= cost

NotEnoughCredits(u, cost) == u.credits < cost

(* db.commit(): the UPDATE carries the attributes whose value differs from
   the one the session loaded. *)
Flush(row, loaded, changed) ==
  [row EXCEPT
     !.credits = IF changed.credits # loaded.credits
                 THEN changed.credits ELSE @,
     !.credits_reset_at = IF changed.credits_reset_at # loaded.credits_reset_at
                          THEN changed.credits_reset_at ELSE @]

(* The decrement computed by the database on the row (UPDATE users SET
   credits = credits - :cost), with the balance test left in Python. *)
DeductInDatabase(row, loaded, cost) == [row EXCEPT !.credits = @ - cost]

(* user.credits -= cost; db.commit(): the session object carries the balance
   it loaded, and the UPDATE writes the difference as an absolute value. *)
Deduct(row, loaded, cost) ==
  Flush(row, loaded, [loaded EXCEPT !.credits = @ - cost])

----------------------------------------------------------------------------
(* State *)

NoUser ==
  [credits |-> 0, credits_reset_at |-> None, membership_plan |-> "free",
   membership_status |-> "INACTIVE", membership_active_until |-> None]

(* A request: where it stands, its route, the User object of its session
   (NoUser while the object is expired), the local now of
   ensure_credits_are_valid while its commit is pending, and the credits the
   user had when the request entered consume_credits. *)
IdleCall ==
  [pc |-> "idle", ep |-> "none", cache |-> NoUser, now |-> None, pre |-> None]

(* The request has returned: its session is closed and its locals are gone. *)
DoneCall == [IdleCall EXCEPT !.pc = "done"]

(* What the client of the request that returned last has seen: out is how
   consume_credits ended (ok: charged, exempt, raised, none: not called). *)
Returned(i, ep, out, resp) == [id |-> i, ep |-> ep, out |-> out, resp |-> resp]

NoReturn == Returned(0, "none", "none", "none")

(* No job has run: AsyncResult of any handle is PENDING. *)
NoResults == [i \in CallIds |-> [state |-> "PENDING", retries |-> 0]]

NoPoll == [resp |-> "none"]

(* No Lesson row of the requested id (or no Course row): content and status
   of the Lesson, status of the Module of module_id ("none": no such row) and
   of the Course. *)
NoLesson ==
  [content |-> <<>>, status |-> "none", module |-> "none", course |-> "none"]

NoWorker ==
  [pc |-> "none", buffer |-> <<>>, before |-> NoLesson, finished |-> FALSE]

NoRelay == [pc |-> "none", inbox |-> <<>>, client |-> <<>>]

(* The store has no value under the key. *)
NoKey == "(nil)"

MaxPolls == 3

PollIds == 1..MaxPolls

IdlePoll == [pc |-> "idle", reply |-> NoKey, resp |-> "none", late |-> FALSE]

(* No quiz:<task_id> key. *)
NoQuiz == [value |-> NoKey, ttl |-> 0]

InitTaskVars ==
  /\ results = NoResults
  /\ polled = NoPoll
  /\ recorded = {}
  /\ quizzes = [i \in CallIds |-> NoQuiz]

(* No lesson stream was requested. *)
InitStreamVars ==
  /\ worker = NoWorker
  /\ lesson = NoLesson
  /\ published = <<>>
  /\ relay = NoRelay

(* No chat job was dispatched and no chat poll has arrived. *)
InitChatVars ==
  /\ mailbox = NoKey
  /\ polls = [p \in PollIds |-> IdlePoll]

InitRest ==
  /\ InitTaskVars
  /\ InitStreamVars
  /\ InitChatVars

(* The ledger and the dispatcher at rest, for the subsystems that run after
   a dispatch has returned. *)
InitLedgerAtRest ==
  /\ clock = 0
  /\ user = NoUser
  /\ calls = [i \in CallIds |-> IdleCall]
  /\ started = 0
  /\ rows = {}
  /\ queue = {}
  /\ expected = user.credits
  /\ last = NoReturn

InFlight == {i \in CallIds : calls[i].pc \notin {"idle", "done"}}

Init ==
  /\ clock = 0
  /\ \E c \in InitCredits, r \in InitResetAt, m \in Memberships,
        a \in InitActiveUntil :
       user = [credits |-> c, credits_reset_at |-> r, membership_plan |-> m[1],
               membership_status |-> m[2], membership_active_until |-> a]
  /\ calls = [i \in CallIds |-> IdleCall]
  /\ started = 0
  /\ rows = {}
  /\ queue = {}
  /\ expected = user.credits
  /\ last = NoReturn
  /\ InitRest

----------------------------------------------------------------------------
(* Requests *)

Return(i, ep, out, resp) ==
  /\ calls' = [calls EXCEPT ![i] = DoneCall]
  /\ last' = Returned(i, ep, out, resp)

Continue(i, c) ==
  /\ calls' = [calls EXCEPT ![i] = c]
  /\ last' = last

(* The rest of a generation route: the lesson-stream routes look the lesson
   and the course up (404 when either is missing); the durable kinds add the
   row with status GENERATING and commit; the arguments of .delay are checked
   against the task's signature and the job is enqueued (the job handle of
   request i is i; the broker may be down); the durable kinds write the
   handle onto the row and commit. *)
NewRow(i, ep) ==
  [id |-> i, kind |-> Kind(ep), status |-> "GENERATING", task_id |-> None,
   outlines |-> 0]

(* The parameters of the task of a kind, after self, in the order of its
   signature, and how many of them have no default. *)
TaskParameters(kind) ==
  CASE kind = "course_outline" ->
         <<"topic", "level", "user_id", "roadmap_id", "roadmap_node_id",
           "course_id", "custom_prompt">>
    [] kind = "roadmap_outline" -> <<"roadmap_name", "roadmap_id", "user_id">>
    [] kind = "lesson_stream" ->
         <<"model", "lesson_id", "module_id", "course_id", "stream_id",
           "custom_prompt">>
    [] kind = "quiz_generation" -> <<"lesson_name">>
    [] OTHER -> <<>>

RequiredParameters(kind) ==
  CASE kind = "course_outline" -> {"topic", "level", "user_id"}
    [] kind = "roadmap_outline" -> {"roadmap_name", "roadmap_id", "user_id"}
    [] kind = "lesson_stream" ->
         {"model", "lesson_id", "module_id", "course_id", "stream_id"}
    [] kind = "quiz_generation" -> {"lesson_name"}
    [] OTHER -> {}

(* The arguments of the .delay call of an endpoint: the positional ones, each
   named by the value of the request it carries, and the keywords, each
   carrying the value of its own name. *)
PositionalArguments(ep) ==
  IF ep \in {"r_lesson", "m_lesson"}
  THEN <<"lesson_id", "module_id", "course_id", "stream_id">>
  ELSE <<>>

KeywordArguments(ep) ==
  CASE ep \in {"r_course", "m_course"} ->
         {"topic", "level", "user_id", "roadmap_node_id", "course_id"}
    [] ep = "r_roadmap" ->
         {"roadmap_name", "roadmap_id", "user_id", "custom_prompt"}
    [] ep = "m_roadmap" -> {"roadmap_name", "roadmap_id", "user_id"}
    [] ep \in {"r_quiz", "m_quiz"} -> {"lesson_name"}
    [] OTHER -> {}

(* The parameters the positional arguments fill. *)
FilledByPosition(ep) ==
  LET ps == TaskParameters(Kind(ep))
      n == Len(PositionalArguments(ep))
  IN {ps[k] : k \in 1..(IF n < Len(ps) THEN n ELSE Len(ps))}

(* The value of the request that parameter p of the task receives. *)
BoundArgument(ep, p) ==
  LET ps == TaskParameters(Kind(ep))
      as == PositionalArguments(ep)
  IN IF p \in FilledByPosition(ep)
     THEN as[CHOOSE k \in 1..Len(as) : ps[k] = p]
     ELSE IF p \in KeywordArguments(ep) THEN p
     ELSE "default"

(* The argument check of apply_async (Task.typing): the call of the task's
   signature with the arguments of .delay raises no TypeError. *)
Binds(ep) ==
  LET ps == TaskParameters(Kind(ep))
      names == {ps[k] : k \in 1..Len(ps)}
  IN /\ Len(PositionalArguments(ep)) <= Len(ps)
     /\ KeywordArguments(ep) \subseteq names \ FilledByPosition(ep)
     /\ RequiredParameters(Kind(ep)) \subseteq
          FilledByPosition(ep) \cup KeywordArguments(ep)

(* course.task_id = task.id; db.commit() *)
WithHandle(row, task) == [row EXCEPT !.task_id = task]

Dispatch(i, ep, out) ==
  LET row == NewRow(i, ep)
  IN \E found \in BOOLEAN, brokerUp \in BOOLEAN :
       /\ Kind(ep) = "lesson_stream" \/ found
       /\ found \/ brokerUp
       /\ IF ~found
          THEN /\ Return(i, ep, out, "404")
               /\ UNCHANGED <<rows, queue>>
          ELSE IF ~Binds(ep)
          THEN /\ brokerUp
               /\ Return(i, ep, out, "TypeError")
               /\ rows' = IF Durable(ep) THEN rows \cup {row} ELSE rows
               /\ queue' = queue
          ELSE IF ~brokerUp
          THEN /\ Return(i, ep, out, EnqueueFailureResponse(ep))
               /\ rows' = IF Durable(ep) THEN rows \cup {row} ELSE rows
               /\ queue' = queue
          ELSE /\ Return(i, ep, out, "200")
               /\ rows' = IF Durable(ep)
                          THEN rows \cup {WithHandle(row, i)}
                          ELSE rows
               /\ queue' = queue \cup {[id |-> i, kind |-> Kind(ep)]}

(* consume_credits after ensure_credits_are_valid returned, on the User
   object u of the session: the exemption, the expired membership, the
   balance.  A request that passes the three tests has user.credits -= cost
   pending on its session object and is about to commit. *)
Tests(i, c, u) ==
  IF Unlimited(u, clock)
  THEN Dispatch(i, c.ep, "exempt")
  ELSE IF \/ MembershipExpired(u, clock)
          \/ NotEnoughCredits(u, GENERATION_COST(c.ep))
  THEN IF AfterConsumeRaise(c.ep) = "done"
       THEN /\ Return(i, c.ep, "raised", CreditFailureResponse(c.ep))
            /\ UNCHANGED <<rows, queue>>
       ELSE Dispatch(i, c.ep, "raised")
  ELSE /\ Continue(i, [c EXCEPT !.pc = "charge", !.cache = u, !.pre = None])
       /\ UNCHANGED <<rows, queue>>

(* A request arrives.  deps.get_current_user loads the user and commits
   last_login_at, which expires the session's User object; the routes of
   main.py then dispatch at once.  The other routes enter
   ensure_credits_are_valid, whose first attribute access reloads the User
   object.  If it has nothing to reset, the request goes on in Python, on the
   object it holds, through the tests of consume_credits. *)
Start(i, ep) ==
  LET c == [IdleCall EXCEPT !.ep = ep, !.pre = user.credits]
  IN /\ started < MaxCalls
     /\ i = started + 1
     /\ started' = i
     /\ IF ep \in MainEndpoints
        THEN Dispatch(i, ep, "none")
        ELSE IF ensure_credits_are_valid(user, clock) # user
        THEN /\ Continue(i, [c EXCEPT !.pc = "ensure_commit", !.cache = user,
                                      !.now = clock])
             /\ UNCHANGED <<rows, queue>>
        ELSE IF ep = "get_me"
        THEN /\ Return(i, ep, "none", "200")
             /\ UNCHANGED <<rows, queue>>
        ELSE Tests(i, c, user)
     /\ UNCHANGED <<clock, user, expected, restVars>>

(* db.commit() of ensure_credits_are_valid; it expires the User object. *)
EnsureCommit(i) ==
  LET c == calls[i]
  IN /\ c.pc = "ensure_commit"
     /\ user' = Flush(user, c.cache, ensure_credits_are_valid(c.cache, c.now))
     /\ expected' = user'.credits
     /\ IF c.ep = "get_me"
        THEN Return(i, c.ep, "none", "200")
        ELSE Continue(i, [c EXCEPT !.pc = "check", !.cache = NoUser,
                                   !.now = None])
     /\ UNCHANGED <<clock, started, rows, queue, restVars>>

(* consume_credits after the commit of ensure_credits_are_valid: the first
   attribute access reloads the User object. *)
Check(i) ==
  /\ calls[i].pc = "check"
  /\ Tests(i, calls[i], user)
  /\ UNCHANGED <<clock, user, started, expected, restVars>>

(* consume_credits: user.credits -= cost; db.commit() *)
Charge(i) ==
  LET c == calls[i]
  IN /\ c.pc = "charge"
     /\ user' = Deduct(user, c.cache, GENERATION_COST(c.ep))
     /\ expected' = expected - GENERATION_COST(c.ep)
     /\ Dispatch(i, c.ep, "ok")
     /\ UNCHANGED <<clock, started, restVars>>

(* PATCH /admin/users/{user_id}/credits: the payload is validated
   (credits >= 0), the row is written with the payload's values and
   committed. *)
update_user_credits(credits, reset_at) ==
  /\ credits >= 0
  /\ user' = [user EXCEPT !.credits = credits,
                          !.credits_reset_at = IF reset_at # None
                                               THEN reset_at ELSE @]
  /\ expected' = credits
  /\ UNCHANGED <<clock, calls, started, rows, queue, last, restVars>>

Tick ==
  /\ clock < MaxClock
  /\ clock' = clock + 1
  /\ UNCHANGED <<user, calls, started, rows, queue, expected, last, restVars>>

Step(i) ==
  \/ EnsureCommit(i)
  \/ Check(i)
  \/ Charge(i)

Next ==
  \/ \E i \in CallIds, ep \in Endpoints : Start(i, ep)
  \/ \E i \in CallIds : Step(i)
  \/ \E c \in AdminCredits, r \in AdminResetAt : update_user_credits(c, r)
  \/ Tick

(* Requests of the user arrive while others are in flight. *)
Spec == Init /\ [][Next]_vars

(* Requests served one after another: a request or an admin update starts
   when no request is in flight. *)
NextSeq ==
  \/ \E i \in CallIds, ep \in Endpoints : InFlight = {} /\ Start(i, ep)
  \/ \E i \in CallIds : Step(i)
  \/ \E c \in AdminCredits, r \in AdminResetAt :
       InFlight = {} /\ update_user_credits(c, r)
  \/ Tick

SpecSeq == Init /\ [][NextSeq]_vars

----------------------------------------------------------------------------
(* ---- The membership writers ---- *)

(* Dates Stripe reports as the end of the paid period. *)
CancelDates == {1, 2}

(* Payloads of the admin membership update: schema.UpdateUserMembership asks
   a plan of free or premium and a MembershipStatus; the date is optional. *)
AdminPlans == {"free", "premium"}

AdminStatuses == {"INACTIVE", "ACTIVE", "CANCELED"}

AdminActiveUntil == {None, 2}

(* The ledger's variables other than the user row. *)
UserOnly ==
  UNCHANGED <<clock, calls, started, rows, queue, expected, last, restVars>>

(* Webhook customer.subscription.deleted or invoice.payment_failed. *)
handle_subscription_ended ==
  /\ user' = [user EXCEPT !.membership_status = "INACTIVE",
                          !.membership_plan = "free",
                          !.membership_active_until = clock]
  /\ UserOnly

(* Webhook invoice.payment_succeeded. *)
handle_payment_succeeded ==
  /\ user' = [user EXCEPT !.membership_status = "ACTIVE",
                          !.membership_plan = "premium",
                          !.membership_active_until = None]
  /\ UserOnly

(* POST /cancel-subscription, when Stripe lists an active subscription: the
   user keeps access until the date Stripe reports. *)
cancel_subscription(cancel_date) ==
  /\ user' = [user EXCEPT !.membership_status = "CANCELED",
                          !.membership_active_until = cancel_date]
  /\ UserOnly

(* Webhook customer.subscription.updated with cancel_at_period_end. *)
handle_subscription_updated(cancel_at) ==
  /\ user.membership_status # "CANCELED"
  /\ user' = [user EXCEPT !.membership_status = "CANCELED",
                          !.membership_active_until = cancel_at]
  /\ UserOnly

(* POST /reactivate-subscription, when Stripe lists a subscription that is
   set to cancel. *)
reactivate_subscription ==
  /\ user' = [user EXCEPT !.membership_status = "ACTIVE",
                          !.membership_active_until = None]
  /\ UserOnly

(* PATCH /admin/users/{user_id}/membership: the date is written only when
   the payload carries one. *)
update_user_membership(plan, status, until) ==
  /\ user' = [user EXCEPT !.membership_plan = plan,
                          !.membership_status = status,
                          !.membership_active_until = IF until # None
                                                      THEN until ELSE @]
  /\ UserOnly

(* A step that writes membership_active_until or makes the user
   premium+ACTIVE, other than the end of the subscription. *)
MembershipWrite ==
  \/ handle_payment_succeeded
  \/ reactivate_subscription
  \/ \E d \in CancelDates : cancel_subscription(d)
  \/ \E d \in CancelDates : handle_subscription_updated(d)
  \/ \E p \in AdminPlans, s \in AdminStatuses, a \in AdminActiveUntil :
       update_user_membership(p, s, a)

(* The consuming requests of the user, the admin's credit updates and the
   membership writers, one after another. *)
NextMembership ==
  \/ \E i \in CallIds, ep \in ConsumeEndpoints : InFlight = {} /\ Start(i, ep)
  \/ \E i \in CallIds : Step(i)
  \/ \E c \in AdminCredits, r \in AdminResetAt :
       InFlight = {} /\ update_user_credits(c, r)
  \/ InFlight = {} /\ handle_subscription_ended
  \/ InFlight = {} /\ MembershipWrite
  \/ Tick

SpecMembership == Init /\ [][NextMembership]_vars

----------------------------------------------------------------------------
(* ---- The job queue's workers and the task-status bridge ---- *)

Statuses ==
  {"FAILED", "GENERATING", "NOT_GENERATED", "NOT_STARTED", "IN_PROGRESS",
   "COMPLETED"}

TaskEndpoints == {"r_course", "m_roadmap", "r_quiz"}

PollTypes == {"course_outline", "roadmap_outline", "quiz_generation"}

(* autoretry_for = (Exception,) is declared by the course-outline task only. *)
AutoRetry(kind) == kind = "course_outline"

(* A member of the enumeration Status compared with a string by != : the
   enumeration is not a string enumeration, so the two always differ. *)
DiffersFromString(status, text) == TRUE

(* A poll that marks the row of an unfinished job as generating. *)
PolledStatusMarksRunning(status, state) ==
  IF state = "SUCCESS" THEN "NOT_STARTED"
  ELSE IF state = "FAILURE" /\ DiffersFromString(status, "FAILED") THEN "FAILED"
  ELSE "GENERATING"

(* A poll that does not record a failed job. *)
PolledStatusIgnoresFailure(status, state) ==
  IF state = "SUCCESS" THEN "NOT_STARTED" ELSE status

(* The status task_status leaves on the row it found. *)
PolledStatus(status, state) ==
  IF state = "SUCCESS" THEN "NOT_STARTED"
  ELSE IF state = "FAILURE" /\ DiffersFromString(status, "FAILED") THEN "FAILED"
  ELSE status

(* The "status" field of the response of task_status for a row it found. *)
PolledResponse(status, state) ==
  IF state = "SUCCESS" THEN "SUCCESS"
  ELSE IF state = "FAILURE" /\ DiffersFromString(status, "FAILED") THEN "FAILURE"
  ELSE status

Lower(state) ==
  CASE state = "PENDING" -> "pending"
    [] state = "RETRY" -> "retry"
    [] state = "SUCCESS" -> "success"
    [] state = "FAILURE" -> "failure"

Runnable == {j \in queue : results[j.id].state \in {"PENDING", "RETRY"}}

(* An execution that also records the outcome of the job in the status. *)
WorkerWritesStatus(r, outcome) ==
  [r EXCEPT !.outlines = IF outcome = "returns" THEN @ + 1 ELSE @,
            !.status = IF outcome = "returns" THEN "NOT_STARTED" ELSE "FAILED"]

(* An execution whose save is committed although it raises afterwards. *)
WorkerWritesBeforeRaising(r, outcome) == [r EXCEPT !.outlines = @ + 1]

(* What an execution of the course-outline or roadmap job commits on the
   row of its course_id or roadmap_id: the modules and lessons (the nodes) of
   one generated outline, in the one commit that ends the save, and nothing
   when it raises.  outlines counts the outlines the row holds. *)
WorkerWrites(r, outcome) ==
  [r EXCEPT !.outlines = IF outcome = "returns" THEN @ + 1 ELSE @]

(* redis_client.setex(f"quiz:{task_id}", QUIZ_TTL_SECONDS, ...) *)
QuizStored == [value |-> "quiz", ttl |-> QUIZ_TTL_SECONDS]

(* An execution of a job returns. *)
WorkerSucceeds(j) ==
  /\ j \in Runnable
  /\ results' = [results EXCEPT ![j.id].state = "SUCCESS"]
  /\ quizzes' = IF j.kind = "quiz_generation"
                THEN [quizzes EXCEPT ![j.id] = QuizStored]
                ELSE quizzes
  /\ rows' = {IF r.id = j.id THEN WorkerWrites(r, "returns") ELSE r : r \in rows}
  /\ UNCHANGED <<clock, user, calls, started, queue, expected, last,
                 polled, recorded, streamVars, chatVars>>

(* An execution of a job raises an exception. *)
WorkerRaises(j) ==
  /\ j \in Runnable
  /\ results' =
       IF AutoRetry(j.kind) /\ results[j.id].retries < MaxRetries
       THEN [results EXCEPT ![j.id] =
               [state |-> "RETRY", retries |-> @.retries + 1]]
       ELSE [results EXCEPT ![j.id].state = "FAILURE"]
  /\ rows' = {IF r.id = j.id THEN WorkerWrites(r, "raises") ELSE r : r \in rows}
  /\ UNCHANGED <<clock, user, calls, started, queue, expected, last,
                 polled, recorded, quizzes, streamVars, chatVars>>

(* The store's clock advances; a key whose time to live has run out is gone. *)
StoreTick ==
  /\ \E i \in CallIds : quizzes[i].value # NoKey
  /\ quizzes' = [i \in CallIds |->
       IF quizzes[i].value = NoKey \/ quizzes[i].ttl <= StoreTickSeconds
       THEN NoQuiz
       ELSE [quizzes[i] EXCEPT !.ttl = @ - StoreTickSeconds]]
  /\ UNCHANGED <<clock, user, calls, started, rows, queue, expected, last,
                 results, polled, recorded, streamVars, chatVars>>

(* A quiz poll that answers from the result backend alone. *)
QuizResponseFromResult(value, state) ==
  IF state = "SUCCESS" THEN "done" ELSE Lower(state)

(* task_status, type quiz_generation: the quiz key, else the state of the
   job (no code writes the quiz_error key). *)
QuizResponse(value, state) ==
  IF value # NoKey THEN "done" ELSE Lower(state)

task_status(type, task_id) ==
  LET found == {r \in rows : r.kind = type /\ r.task_id = task_id}
      state == results[task_id].state
  IN /\ type \in PollTypes
     /\ IF type = "quiz_generation"
        THEN /\ polled' = [resp |-> QuizResponse(quizzes[task_id].value, state)]
             /\ UNCHANGED <<rows, recorded>>
        ELSE IF found = {}
        THEN /\ polled' = [resp |-> "UNKNOWN"]
             /\ UNCHANGED <<rows, recorded>>
        ELSE LET r == CHOOSE x \in found : TRUE
             IN /\ rows' = (rows \ {r}) \cup
                             {[r EXCEPT !.status = PolledStatus(r.status, state)]}
                /\ polled' = [resp |-> PolledResponse(r.status, state)]
                /\ recorded' = IF state \in {"SUCCESS", "FAILURE"}
                               THEN recorded \cup {r.id} ELSE recorded
     /\ UNCHANGED <<clock, user, calls, started, queue, expected, last, results,
                    quizzes, streamVars, chatVars>>

(* update_course_status and update_roadmap_status: the user's request. *)
update_status(id, status) ==
  /\ \E r \in rows :
       /\ r.id = id
       /\ rows' = (rows \ {r}) \cup {[r EXCEPT !.status = status]}
  /\ UNCHANGED <<clock, user, calls, started, queue, expected, last, taskVars,
                 streamVars, chatVars>>

(* The lesson worker saving a lesson of the course. *)
lesson_saved(id) ==
  /\ \E r \in rows :
       /\ r.id = id
       /\ r.kind = "course_outline"
       /\ r.status = "NOT_GENERATED"
       /\ rows' = (rows \ {r}) \cup {[r EXCEPT !.status = "IN_PROGRESS"]}
  /\ UNCHANGED <<clock, user, calls, started, queue, expected, last, taskVars,
                 streamVars, chatVars>>

TaskUsers ==
  {[credits |-> 0, credits_reset_at |-> None, membership_plan |-> "premium",
    membership_status |-> "ACTIVE", membership_active_until |-> None],
   [credits |-> 15, credits_reset_at |-> 1, membership_plan |-> "free",
    membership_status |-> "INACTIVE", membership_active_until |-> None]}

InitTasks ==
  /\ clock = 0
  /\ user \in TaskUsers
  /\ calls = [i \in CallIds |-> IdleCall]
  /\ started = 0
  /\ rows = {}
  /\ queue = {}
  /\ expected = user.credits
  /\ last = NoReturn
  /\ InitRest

NextTasks ==
  \/ \E i \in CallIds, ep \in TaskEndpoints : InFlight = {} /\ Start(i, ep)
  \/ \E i \in CallIds : Charge(i)
  \/ \E j \in queue : WorkerSucceeds(j)
  \/ \E j \in queue : WorkerRaises(j)
  \/ \E type \in PollTypes, task_id \in CallIds : task_status(type, task_id)
  \/ \E id \in CallIds, status \in Statuses : update_status(id, status)
  \/ \E id \in CallIds : lesson_saved(id)

(* Dispatches, executions of the jobs, polls and status updates. *)
SpecTasks == InitTasks /\ [][NextTasks]_vars

NextQuiz ==
  \/ \E i \in CallIds : InFlight = {} /\ Start(i, "r_quiz")
  \/ \E i \in CallIds : Charge(i)
  \/ \E j \in queue : WorkerSucceeds(j)
  \/ \E j \in queue : WorkerRaises(j)
  \/ \E task_id \in CallIds : task_status("quiz_generation", task_id)
  \/ StoreTick

(* Quiz dispatches, their jobs, the quiz polls and the store's clock. *)
SpecQuiz == InitTasks /\ [][NextQuiz]_vars

(* ---- The lesson stream: worker, channel and relay ---- *)

MaxTokens == 2

Tokens == {"a", "b"}

STREAM_END == "[[STREAM_END]]"

ERROR == "[[ERROR]]"

Sentinels == {STREAM_END, ERROR}

(* The generator's terminator and its error event. *)
Terminator == "\n\n"

ErrorEvent == "event: error"

(* The rows a lesson stream can find: none, a lesson never generated, a
   lesson with content. *)
InitLessons ==
  {NoLesson} \cup
  {[content |-> l[1], status |-> l[2], module |-> m, course |-> c] :
     l \in {<< <<>>, "NOT_GENERATED" >>, << <<"a">>, "COMPLETED" >>},
     m \in {"none", "NOT_GENERATED", "COMPLETED"},
     c \in {"NOT_GENERATED", "NOT_STARTED"}}

(* redis publish: the message reaches the subscribers of the moment, and
   nobody else. *)
Deliver(r, msgs) ==
  IF r.pc = "listening" THEN [r EXCEPT !.inbox = @ \o msgs] ELSE r

Publish(msgs) ==
  /\ published' = published \o msgs
  /\ relay' = Deliver(relay, msgs)

(* A handler that publishes the end sentinel after the error sentinel. *)
OnExceptionThenEnd == <<ERROR, STREAM_END>>

(* except Exception: publish the error sentinel. *)
OnException == <<ERROR>>

(* A rollback that keeps the markdown streamed so far. *)
RollbackKeepsPartial(row, buffer) ==
  [row EXCEPT !.content = buffer, !.status = "IN_PROGRESS"]

(* db.rollback(): nothing of the execution is committed. *)
Rollback(row, buffer) == row

(* The worker takes the job and looks the lesson and the course up. *)
WorkerLookup ==
  /\ worker.pc = "queued"
  /\ IF lesson = NoLesson
     THEN /\ worker' = [worker EXCEPT !.pc = "done", !.before = lesson]
          /\ Publish(<<ERROR>>)
     ELSE /\ worker' = [worker EXCEPT !.pc = "streaming", !.before = lesson]
          /\ UNCHANGED <<published, relay>>
  /\ UNCHANGED <<clock, user, calls, started, rows, queue, expected, last,
                 lesson, taskVars, chatVars>>

(* The next token of the completion arrives. *)
WorkerToken(t) ==
  /\ worker.pc = "streaming"
  /\ Len(worker.buffer) < MaxTokens
  /\ worker' = [worker EXCEPT !.buffer = Append(@, t)]
  /\ Publish(<<t>>)
  /\ UNCHANGED <<clock, user, calls, started, rows, queue, expected, last,
                 lesson, taskVars, chatVars>>

(* if entity and entity.status == Status.NOT_GENERATED: IN_PROGRESS *)
Advance(status) == IF status = "NOT_GENERATED" THEN "IN_PROGRESS" ELSE status

(* The completion has ended.  The buffer and the statuses are set on the
   objects and db.add_all([lesson, module, course]) is called: with no Module
   row of module_id the list holds None and add_all raises, which ends in the
   exception handler; otherwise the commit. *)
WorkerSave ==
  /\ worker.pc = "streaming"
  /\ IF lesson.module = "none"
     THEN /\ worker' = [worker EXCEPT !.pc = "done", !.finished = TRUE]
          /\ Publish(OnException)
          /\ lesson' = Rollback(lesson, worker.buffer)
     ELSE /\ worker' = [worker EXCEPT !.pc = "saved", !.finished = TRUE]
          /\ lesson' = [content |-> worker.buffer,
                        status |-> "IN_PROGRESS",
                        module |-> Advance(lesson.module),
                        course |-> Advance(lesson.course)]
          /\ UNCHANGED <<published, relay>>
  /\ UNCHANGED <<clock, user, calls, started, rows, queue, expected, last,
                 taskVars, chatVars>>

WorkerEnd ==
  /\ worker.pc = "saved"
  /\ worker' = [worker EXCEPT !.pc = "done"]
  /\ Publish(<<STREAM_END>>)
  /\ UNCHANGED <<clock, user, calls, started, rows, queue, expected, last,
                 lesson, taskVars, chatVars>>

(* The completion, the iteration or the commit raises. *)
WorkerRaisesMidStream ==
  /\ worker.pc = "streaming"
  /\ worker' = [worker EXCEPT !.pc = "done"]
  /\ Publish(OnException)
  /\ lesson' = Rollback(lesson, worker.buffer)
  /\ UNCHANGED <<clock, user, calls, started, rows, queue, expected, last,
                 taskVars, chatVars>>

(* event_stream starts: pubsub.subscribe(channel). *)
Subscribe ==
  /\ relay.pc = "enqueued"
  /\ relay' = [relay EXCEPT !.pc = "listening"]
  /\ UNCHANGED <<clock, user, calls, started, rows, queue, expected, last,
                 worker, lesson, published, taskVars, chatVars>>

(* One turn of the loop over pubsub.listen(). *)
RelayMessage ==
  /\ relay.pc = "listening"
  /\ relay.inbox # <<>>
  /\ LET data == Head(relay.inbox)
     IN relay' =
          IF data = STREAM_END
          THEN [pc |-> "closed", inbox |-> <<>>,
                client |-> Append(relay.client, Terminator)]
          ELSE IF data = ERROR
          THEN [pc |-> "closed", inbox |-> <<>>,
                client |-> Append(relay.client, ErrorEvent)]
          ELSE [pc |-> "listening", inbox |-> Tail(relay.inbox),
                client |-> Append(relay.client, data)]
  /\ UNCHANGED <<clock, user, calls, started, rows, queue, expected, last,
                 worker, lesson, published, taskVars, chatVars>>

(* The route has enqueued the job and returned the streaming response. *)
InitStream ==
  /\ InitLedgerAtRest
  /\ InitTaskVars
  /\ InitChatVars
  /\ worker = [NoWorker EXCEPT !.pc = "queued"]
  /\ lesson \in InitLessons
  /\ published = <<>>
  /\ relay = [NoRelay EXCEPT !.pc = "enqueued"]

NextStream ==
  \/ WorkerLookup
  \/ \E t \in Tokens : WorkerToken(t)
  \/ WorkerSave
  \/ WorkerEnd
  \/ WorkerRaisesMidStream
  \/ Subscribe
  \/ RelayMessage

SpecStream == InitStream /\ [][NextStream]_vars

(* ---- The chat reply key and its polls ---- *)

(* The chat job a dispatch has enqueued. *)
ChatJob == [id |-> 1, kind |-> "chat_stream"]

Reply == "reply"

(* generate_chat_stream_task returns: the reply is stored under the key of
   its handle. *)
ChatWorkerReplies ==
  /\ ChatJob \in queue
  /\ results[ChatJob.id].state = "PENDING"
  /\ results' = [results EXCEPT ![ChatJob.id].state = "SUCCESS"]
  /\ mailbox' = Reply
  /\ UNCHANGED <<clock, user, calls, started, rows, queue, expected, last,
                 polled, recorded, quizzes, streamVars, polls>>

(* generate_chat_stream_task raises: no key is written. *)
ChatWorkerRaises ==
  /\ ChatJob \in queue
  /\ results[ChatJob.id].state = "PENDING"
  /\ results' = [results EXCEPT ![ChatJob.id].state = "FAILURE"]
  /\ UNCHANGED <<clock, user, calls, started, rows, queue, expected, last,
                 polled, recorded, quizzes, streamVars, chatVars>>

(* task_status, type chat_stream: reply = redis_client.get(key), and the
   response when there is none. *)
ChatPollGet(p) ==
  /\ polls[p].pc = "idle"
  /\ polls' = [polls EXCEPT ![p] =
       [pc |-> IF mailbox = NoKey THEN "done" ELSE "got",
        reply |-> mailbox,
        resp |-> IF mailbox = NoKey THEN "pending" ELSE "none",
        late |-> \E q \in PollIds : polls[q].resp = "ready"]]
  /\ UNCHANGED <<clock, user, calls, started, rows, queue, expected, last,
                 taskVars, streamVars, mailbox>>

(* task_status, type chat_stream: redis_client.delete(key) and the ready
   response. *)
ChatPollDelete(p) ==
  /\ polls[p].pc = "got"
  /\ mailbox' = NoKey
  /\ polls' = [polls EXCEPT ![p].pc = "done", ![p].resp = "ready"]
  /\ UNCHANGED <<clock, user, calls, started, rows, queue, expected, last,
                 taskVars, streamVars>>

(* The chat dispatch has enqueued its job and returned the handle. *)
InitChat ==
  /\ clock = 0
  /\ user = NoUser
  /\ calls = [i \in CallIds |-> IdleCall]
  /\ started = 0
  /\ rows = {}
  /\ queue = {ChatJob}
  /\ expected = user.credits
  /\ last = NoReturn
  /\ InitTaskVars
  /\ InitStreamVars
  /\ InitChatVars

NextChat ==
  \/ ChatWorkerReplies
  \/ ChatWorkerRaises
  \/ \E p \in PollIds : ChatPollGet(p)
  \/ \E p \in PollIds : ChatPollDelete(p)

SpecChat == InitChat /\ [][NextChat]_vars

(* ---- The durable dispatch step by step, under the polls ---- *)

BridgeEndpoints == {"r_course", "m_roadmap"}

(* A durable route up to its first commit: the row is inserted with status
   GENERATING and no handle.  The user is exempt from credits or the route
   does not consume. *)
DispatchRow(i, ep) ==
  /\ started < MaxCalls
  /\ i = started + 1
  /\ ep \in MainEndpoints \/ Unlimited(user, clock)
  /\ Durable(ep) /\ Binds(ep)
  /\ started' = i
  /\ rows' = rows \cup {NewRow(i, ep)}
  /\ calls' = [calls EXCEPT ![i] = [IdleCall EXCEPT !.pc = "row", !.ep = ep]]
  /\ UNCHANGED <<clock, user, queue, expected, last, restVars>>

(* task = <task>.delay(...): the job exists and has its handle. *)
DispatchEnqueue(i) ==
  /\ calls[i].pc = "row"
  /\ queue' = queue \cup {[id |-> i, kind |-> Kind(calls[i].ep)]}
  /\ calls' = [calls EXCEPT ![i].pc = "enqueued"]
  /\ UNCHANGED <<clock, user, started, rows, expected, last, restVars>>

(* row.task_id = task.id; db.commit(); the response. *)
DispatchPatch(i) ==
  /\ calls[i].pc = "enqueued"
  /\ rows' = {IF r.id = i THEN WithHandle(r, i) ELSE r : r \in rows}
  /\ Return(i, calls[i].ep,
            IF calls[i].ep \in MainEndpoints THEN "none" ELSE "exempt", "200")
  /\ UNCHANGED <<clock, user, started, queue, expected, restVars>>

InitBridge ==
  /\ clock = 0
  /\ user = [credits |-> 0, credits_reset_at |-> None,
             membership_plan |-> "premium", membership_status |-> "ACTIVE",
             membership_active_until |-> None]
  /\ calls = [i \in CallIds |-> IdleCall]
  /\ started = 0
  /\ rows = {}
  /\ queue = {}
  /\ expected = user.credits
  /\ last = NoReturn
  /\ InitRest

NextBridge ==
  \/ \E i \in CallIds, ep \in BridgeEndpoints : DispatchRow(i, ep)
  \/ \E i \in CallIds : DispatchEnqueue(i)
  \/ \E i \in CallIds : DispatchPatch(i)
  \/ \E j \in queue : WorkerSucceeds(j)
  \/ \E j \in queue : WorkerRaises(j)
  \/ \E type \in PollTypes, task_id \in CallIds : task_status(type, task_id)

(* Durable dispatches cut at their commits and at the enqueue, the jobs, and
   the polls. *)
SpecBridge == InitBridge /\ [][NextBridge]_vars

(* Properties *)

PremiumActive ==
  user.membership_plan = "premium" /\ user.membership_status = "ACTIVE"

(* Not premium+ACTIVE and no membership_active_until. *)
NonExempt == ~PremiumActive /\ user.membership_active_until = None

(* The reset deadline is set and not yet reached. *)
DeadlinePending ==
  user.credits_reset_at # None /\ clock < user.credits_reset_at

(* The route of request i in a step request i takes. *)
StepEp(i) == IF calls'[i].pc = "done" THEN last'.ep ELSE calls'[i].ep

(* Request i takes the step in which consume_credits runs its three tests. *)
RunsTests(i) ==
  /\ calls[i].pc \in {"idle", "check"}
  /\ calls'[i] # calls[i]
  /\ calls'[i].pc # "ensure_commit"
  /\ StepEp(i) \in ConsumeEndpoints

(* C1: every generation job in the queue was enqueued by a request whose
   consume_credits call returned successfully (charged or exempt); stated on
   the request that returned last: if its job is in the queue, its consume
   call returned ok or exempt. *)
C1_EnqueueOnlyAfterConsume ==
  \A j \in queue : j.id = last.id => last.out \in {"ok", "exempt"}

(* C2: a course-outline or roadmap request in which consume_credits raised
   has left no Course/Roadmap row and no job behind, and a request that has
   not yet passed the credit check has created no row and enqueued no job. *)
C2_NoRowNoJobOnCreditFailure ==
  /\ (last.out = "raised" /\ Durable(last.ep)) =>
       /\ \A r \in rows : r.id # last.id
       /\ \A j \in queue : j.id # last.id
  /\ \A i \in InFlight :
       /\ \A r \in rows : r.id # i
       /\ \A j \in queue : j.id # i

C2_Witness ==
  /\ last.out = "raised"
  /\ last.ep \in {"r_course", "r_roadmap"}
  /\ last.resp = "unhandled"
  /\ user.credits < 10
  /\ \A r \in rows : r.id # last.id

(* C3: for a user who is not premium+ACTIVE, has no membership_active_until
   and whose reset deadline is set and not reached, with requests served one
   after another: consume_credits passes its tests exactly when
   credits >= cost and otherwise raises, leaving the user row as it was; the
   deduction that follows passed tests lowers the persisted balance by the
   cost, and the balance then equals the balance of the last reset or admin
   update minus the costs deducted since (expected). *)
C3_CreditMonotonicity ==
  [][\A i \in CallIds :
       /\ (RunsTests(i) /\ NonExempt /\ DeadlinePending) =>
            /\ user' = user
            /\ IF user.credits >= GENERATION_COST(StepEp(i))
               THEN calls'[i].pc = "charge"
               ELSE /\ calls'[i].pc = "done"
                    /\ last'.id = i
                    /\ last'.out = "raised"
       /\ (calls[i].pc = "charge" /\ calls'[i] # calls[i] /\ NonExempt) =>
            /\ last'.id = i
            /\ last'.out = "ok"
            /\ user'.credits = user.credits - GENERATION_COST(calls[i].ep)
            /\ user'.credits = expected'
            /\ user'.credits_reset_at = user.credits_reset_at]_vars

(* credits 15, two calls of cost 10: the first left 5, the second failed and
   left 5. *)
C3_Witness ==
  /\ NonExempt
  /\ DeadlinePending
  /\ user.credits = 5
  /\ expected = 5
  /\ last = Returned(2, "r_course", "raised", "unhandled")

(* C4: a consume_credits call that raises leaves the persisted credits equal
   to their value when the call began (pre), for every user state. *)
C4_FailingConsumeKeepsCredits ==
  [][\A i \in CallIds :
       (RunsTests(i) /\ last'.id = i /\ last'.out = "raised") =>
         user'.credits = IF calls[i].pc = "idle" THEN user.credits
                         ELSE calls[i].pre]_vars

(* C5: the persisted credits are never negative, under every interleaving of
   the requests of the user and the admin updates. *)
C5_CreditsNonNegative == user.credits >= 0

(* Concurrent requests have been charged more than the balance held, and all
   have returned. *)
C5_Witness == expected < 0 /\ InFlight = {} /\ last.out = "ok"

(* C6: when request i commits its deduction right after another request's
   successful deduction taken from the balance i had loaded, the persisted
   balance becomes that balance minus the sum of both costs. *)
C6_NoLostUpdate ==
  [][\A i \in CallIds :
       ( /\ calls[i].pc = "charge"
         /\ calls'[i] # calls[i]
         /\ last.out = "ok"
         /\ last.id # i
         /\ user.credits = calls[i].cache.credits - GENERATION_COST(last.ep) ) =>
         user'.credits = calls[i].cache.credits - GENERATION_COST(last.ep)
                           - GENERATION_COST(calls[i].ep)]_vars

(* C7: for a premium+ACTIVE user every step of a request leaves the user row
   (credits and credits_reset_at included) unchanged and ends the request at
   once: ensure_credits_are_valid has nothing to commit, and consume_credits,
   where the route calls it, returns as exempt whatever the balance. *)
C7_PremiumExemption ==
  [][PremiumActive =>
       \A i \in CallIds :
         calls'[i] # calls[i] =>
           /\ user' = user
           /\ calls'[i].pc = "done"
           /\ last'.id = i
           /\ last'.out = IF last'.ep \in ConsumeEndpoints THEN "exempt"
                          ELSE "none"]_vars

C7_Witness ==
  /\ PremiumActive
  /\ user.credits = 0
  /\ user.credits_reset_at = None
  /\ last.out = "exempt"
  /\ last.resp = "200"

(* C8: for a user who is not premium+ACTIVE and has membership_active_until
   set: while it is later than now, consume_credits returns as exempt and
   the user row is unchanged; once it is earlier than now, consume_credits
   raises whatever the balance. *)
C8_GraceWindow ==
  [][\A i \in CallIds :
       ( /\ RunsTests(i)
         /\ ~PremiumActive
         /\ user.membership_active_until # None ) =>
         /\ user.membership_active_until > clock =>
              /\ calls'[i].pc = "done"
              /\ last'.id = i
              /\ last'.out = "exempt"
              /\ user' = user
         /\ user.membership_active_until < clock =>
              /\ calls'[i].pc = "done"
              /\ last'.id = i
              /\ last'.out = "raised"
              /\ user' = user]_vars

(* An expired membership with a balance that covers every tariff: the
   request was refused. *)
C8_Witness ==
  /\ ~PremiumActive
  /\ user.membership_active_until # None
  /\ user.membership_active_until < clock
  /\ user.credits >= 20
  /\ InFlight = {}
  /\ last.id = started
  /\ last.out = "raised"

(* C9: whenever consume_credits raised in a request, the response of that
   request is the 402 error. *)
C9_CreditFailureIs402 == last.out = "raised" => last.resp = "402"

(* C10: for a user who is not premium+ACTIVE and has credits_reset_at set,
   ensure_credits_are_valid leaves the row unchanged when it runs and has a
   commit pending exactly when now >= credits_reset_at and
   credits < DAILY_CREDITS; the commit sets credits to DAILY_CREDITS and the
   deadline to now + one day. *)
C10_ResetOnlyBelowAllowance ==
  [][\A i \in CallIds :
       /\ ( /\ calls[i].pc = "idle"
           /\ calls'[i] # calls[i]
           /\ StepEp(i) \notin MainEndpoints
           /\ ~PremiumActive
           /\ user.credits_reset_at # None ) =>
            /\ user' = user
            /\ calls'[i].pc = "ensure_commit" <=>
                 (clock >= user.credits_reset_at /\ user.credits < DAILY_CREDITS)
       /\ ( /\ calls[i].pc = "ensure_commit"
           /\ calls'[i] # calls[i]
           /\ calls[i].cache.credits_reset_at # None ) =>
            /\ calls[i].now >= calls[i].cache.credits_reset_at
            /\ calls[i].cache.credits < DAILY_CREDITS
            /\ user'.credits = DAILY_CREDITS
            /\ user'.credits_reset_at = calls[i].now + DAY]_vars

(* ensure_credits_are_valid has run on a full balance with the deadline
   elapsed, and the request went on with the row as it was. *)
C10_Witness ==
  \E i \in CallIds :
    /\ calls[i].pc = "charge"
    /\ calls[i].cache = user
    /\ ~PremiumActive
    /\ user.credits >= DAILY_CREDITS
    /\ user.credits_reset_at # None
    /\ clock >= user.credits_reset_at

(* C11: for every user row and instant, ensure_credits_are_valid applied to
   the row it has just produced, at the same instant, produces that row
   again: credits and credits_reset_at after the second call equal their
   values after the first. *)
C11_ResetIdempotence ==
  LET first == ensure_credits_are_valid(user, clock)
      second == ensure_credits_are_valid(first, clock)
  IN /\ second.credits = first.credits
     /\ second.credits_reset_at = first.credits_reset_at

(* GET /user/me has run ensure_credits_are_valid at this instant and the
   reset it decided is committed (only a reset at this instant writes the
   deadline clock + DAY): the row is the result of a first call, on which a
   second call at the same instant runs next. *)
C11_Witness ==
  /\ ~PremiumActive
  /\ user.credits = DAILY_CREDITS
  /\ user.credits_reset_at = clock + DAY
  /\ started = 1
  /\ last = Returned(1, "get_me", "none", "200")

(* The durable dispatch i of the routers ends in this step, having passed
   the credit check and reached the broker. *)
DurableResponse(i) ==
  /\ calls[i].pc # "done"
  /\ calls'[i].pc = "done"
  /\ last'.id = i
  /\ last'.ep \in {"r_course", "r_roadmap"}
  /\ last'.out \in {"ok", "exempt"}
  /\ last'.resp # EnqueueFailureResponse(last'.ep)

(* C12: a course-outline or roadmap dispatch that passes the credit check
   responds 200 and has, at the response, created exactly one row, of status
   GENERATING and carrying the handle of its job, and enqueued exactly one
   job, which has not run yet. *)
C12_DurableDispatchProtocol ==
  [][\A i \in CallIds :
       DurableResponse(i) =>
         /\ last'.resp = "200"
         /\ \E r \in rows' \ rows :
              /\ rows' = rows \cup {r}
              /\ r.id = i
              /\ r.kind = Kind(last'.ep)
              /\ r.status = "GENERATING"
              /\ r.task_id = i
         /\ queue' = queue \cup {[id |-> i, kind |-> Kind(last'.ep)]}
         /\ [id |-> i, kind |-> Kind(last'.ep)] \notin queue
         /\ results'[i].state = "PENDING"]_vars

(* A task-status poll, of any type and task id. *)
Poll == \E type \in PollTypes, task_id \in CallIds : task_status(type, task_id)

(* C13: once the status of a Course or Roadmap row is FAILED or NOT_STARTED,
   no task-status poll sets the status of that row to GENERATING. *)
C13_NoPollBackToGenerating ==
  [][Poll =>
       \A r \in rows : r.status \in {"FAILED", "NOT_STARTED"} =>
         \A x \in rows' : x.id = r.id => x.status # "GENERATING"]_vars

(* A poll has answered with the status of a row that is FAILED while its job
   has not finished. *)
C13_Witness ==
  /\ polled.resp = "FAILED"
  /\ \E r \in rows : r.status = "FAILED" /\ results[r.task_id].state = "RETRY"

(* C14: after a poll has recorded the outcome of the job on a row, a later
   poll leaves the status of that row unchanged when the lesson worker or the
   user's update-status request has advanced it to IN_PROGRESS or COMPLETED. *)
C14_PollNeverDowngrades ==
  [][Poll =>
       \A r \in rows :
         /\ r.id \in recorded
         /\ r.status \in {"IN_PROGRESS", "COMPLETED"}
         => \E x \in rows' : x.id = r.id /\ x.status = r.status]_vars

(* The job of row r is reported failed by the result backend. *)
JobFailed(r) == r.task_id # None /\ results[r.task_id].state = "FAILURE"

(* C15: a poll of a row whose job is reported failed sets the row to FAILED
   and answers FAILURE; a FAILED row of a failed job stays FAILED in every
   step but the user's update of its status; and a failed job is not run
   again nor enqueued again without a request. *)
C15_FailureIsTerminal ==
  [][/\ \A r \in rows :
          JobFailed(r) /\ task_status(r.kind, r.task_id) =>
            /\ polled'.resp = "FAILURE"
            /\ \E x \in rows' : x.id = r.id /\ x.status = "FAILED"
     /\ \A r \in rows :
          /\ JobFailed(r)
          /\ r.status = "FAILED"
          /\ ~ \E status \in Statuses : update_status(r.id, status)
          => r \in rows'
     /\ \A i \in CallIds :
          results[i].state = "FAILURE" => results'[i].state = "FAILURE"
     /\ queue' # queue => last' # last]_vars

(* A course outline failed after its retries, and a poll has answered
   FAILURE and left the row FAILED. *)
C15_Witness ==
  /\ polled.resp = "FAILURE"
  /\ \E r \in rows :
       /\ r.kind = "course_outline"
       /\ r.status = "FAILED"
       /\ r.id \in recorded
       /\ results[r.task_id] = [state |-> "FAILURE", retries |-> MaxRetries]

(* C16: a job of a non-streaming kind (course outline, roadmap, quiz) is
   reported failed only after its executions were retried up to the retry
   limit. *)
C16_FailedOnlyAfterRetries ==
  \A j \in queue :
    /\ j.kind \in {"course_outline", "roadmap_outline", "quiz_generation"}
    /\ results[j.id].state = "FAILURE"
    => results[j.id].retries = MaxRetries

IsSentinel(m) == m \in Sentinels

IsToken(m) == m \notin Sentinels

(* The tokens published on the channel so far, in publish order. *)
PublishedTokens == SelectSeq(published, IsToken)

SentinelPositions(seq) == {k \in 1..Len(seq) : seq[k] \in Sentinels}

TerminalPositions(seq) ==
  {k \in 1..Len(seq) : seq[k] \in {Terminator, ErrorEvent}}

(* C17: when the worker has published its tokens followed by STREAM_END and
   the relay has ended, the client has received exactly those tokens, in
   publish order, followed by the terminator. *)
C17_StreamDelivery ==
  /\ relay.pc = "closed"
  /\ published # <<>>
  /\ published[Len(published)] = STREAM_END
  => relay.client = Append(PublishedTokens, Terminator)

(* C18: at most one sentinel is published on the channel and nothing is
   published after it; an execution of the worker that has ended has
   published exactly one; and the client receives at most one terminal event,
   the last thing the relay forwards. *)
C18_TerminationExclusivity ==
  /\ SentinelPositions(published) \subseteq {Len(published)}
  /\ worker.pc = "done" <=> SentinelPositions(published) # {}
  /\ TerminalPositions(relay.client) \subseteq {Len(relay.client)}
  /\ relay.pc = "closed" <=> TerminalPositions(relay.client) # {}

C18_Witness ==
  /\ worker.pc = "done"
  /\ published = <<"a", ERROR>>
  /\ relay.pc = "closed"
  /\ relay.client = <<"a", ErrorEvent>>

(* C19: once STREAM_END is published the committed content of the Lesson is
   the concatenation, in order, of the tokens published on the stream; once an
   error sentinel is published the committed Lesson is as the worker found
   it. *)
C19_ContentAllOrNothing ==
  /\ (\E k \in 1..Len(published) : published[k] = STREAM_END) =>
       /\ lesson.content = PublishedTokens
       /\ lesson.status = "IN_PROGRESS"
  /\ (\E k \in 1..Len(published) : published[k] = ERROR) =>
       lesson = worker.before

C19_Witness ==
  /\ published = <<"b", ERROR>>
  /\ worker.pc = "done"
  /\ lesson.content = <<"a">>
  /\ lesson.status = "COMPLETED"
  /\ lesson.module = "COMPLETED"

(* C20: over all chat_stream polls of one handle, at most one returns the
   ready response with the reply, and a poll that starts after a ready
   response was returned gets pending. *)
C20_SingleDelivery ==
  /\ Cardinality({p \in PollIds : polls[p].resp = "ready"}) <= 1
  /\ \A p \in PollIds :
       polls[p].late /\ polls[p].pc = "done" => polls[p].resp = "pending"

(* The quiz job of handle i has succeeded and its key is gone. *)
QuizExpired(i) == results[i].state = "SUCCESS" /\ quizzes[i].value = NoKey

(* C21: the quiz worker's success stores the result under the key of its
   handle with a time to live of 3600 s; a quiz poll while the key lives
   answers done; a quiz poll after the key has expired does not answer done
   but the state the result backend reports for the job. *)
C21_QuizMailboxLifetime ==
  [][/\ \A j \in queue :
          j.kind = "quiz_generation" /\ WorkerSucceeds(j) =>
            /\ quizzes'[j.id].value # NoKey
            /\ quizzes'[j.id].ttl = 3600
     /\ \A i \in CallIds :
          /\ quizzes[i].value # NoKey /\ quizzes[i].ttl > 0
               => quizzes[i].ttl <= 3600 /\ results[i].state = "SUCCESS"
          /\ task_status("quiz_generation", i) =>
               /\ quizzes[i].value # NoKey => polled'.resp = "done"
               /\ QuizExpired(i) =>
                    /\ polled'.resp # "done"
                    /\ polled'.resp = Lower(results[i].state)]_vars

(* A poll after the expiry of the key of a job that succeeded. *)
C21_Witness ==
  /\ polled.resp = "success"
  /\ QuizExpired(1)
  /\ quizzes[2].value # NoKey

(* C28: the arguments a dispatch hands to .delay fit the signature of the
   task, so no dispatch ends in the TypeError of the argument check, and the
   lesson-stream task receives the request's lesson id, module id, course id
   and stream id in the parameters of those names. *)
C28_DispatcherAndWorkerAgree ==
  /\ last.resp # "TypeError"
  /\ last.ep \in {"r_lesson", "m_lesson"} /\ last.resp # "404" =>
       \A p \in {"lesson_id", "module_id", "course_id", "stream_id"} :
         BoundArgument(last.ep, p) = p

(* C27: a dispatch request in which consume_credits deducted credits has
   enqueued a generation job when it ends. *)
C27_NoChargeWithoutJob ==
  last.out = "ok" => \E j \in queue : j.id = last.id

(* C22: while a dispatched row has no handle yet and its job is enqueued, a
   poll for the handle of that job answers that the task is generating. *)
C22_BridgeToleratesTwoPhaseWrite ==
  [][\A r \in rows :
       /\ r.task_id = None
       /\ [id |-> r.id, kind |-> r.kind] \in queue
       /\ task_status(r.kind, r.id)
       => polled'.resp = "GENERATING"]_vars

(* An execution of a job, returning or raising. *)
WorkerStep == \E j \in queue : WorkerSucceeds(j) \/ WorkerRaises(j)

(* C23: no execution of a course-outline or roadmap job changes the status
   of a row, returning or raising; and in a step that is neither a poll nor
   the user's status update a GENERATING row stays GENERATING, whatever the
   outcome of its job. *)
C23_LazyReconciliation ==
  [][/\ WorkerStep =>
          \A r \in rows : \E x \in rows' : x.id = r.id /\ x.status = r.status
     /\ ~ Poll /\ ~ (\E id \in CallIds, status \in Statuses :
                       update_status(id, status)) =>
          \A r \in rows : r.status = "GENERATING" =>
            \E x \in rows' : x.id = r.id /\ x.status = "GENERATING"]_vars

(* A course-outline job failed after its retries, a roadmap job succeeded,
   nobody polled, and both rows are GENERATING. *)
C23_Witness ==
  /\ polled = NoPoll
  /\ \E r \in rows :
       /\ r.kind = "course_outline" /\ r.status = "GENERATING"
       /\ results[r.id] = [state |-> "FAILURE", retries |-> MaxRetries]
  /\ \E r \in rows :
       /\ r.kind = "roadmap_outline" /\ r.status = "GENERATING"
       /\ results[r.id].state = "SUCCESS"

(* C29: a course-outline job that has ended successfully, after any number
   of failed attempts and retries, has left the Course with the modules and
   lessons of exactly one outline; one that has ended in failure has left it
   with none. *)
C29_RetriesDoNotDuplicate ==
  \A r \in rows :
    r.kind = "course_outline" /\ [id |-> r.id, kind |-> r.kind] \in queue =>
      /\ results[r.id].state = "SUCCESS" => r.outlines = 1
      /\ results[r.id].state = "FAILURE" => r.outlines = 0

C29_Witness ==
  \E r \in rows :
    /\ r.kind = "course_outline"
    /\ results[r.id] = [state |-> "SUCCESS", retries |-> 2]
    /\ r.outlines = 1

(* C24: when the lesson and the course of the job exist and the token stream
   has finished without raising, the worker has, at its end, committed the
   concatenated text to the Lesson and published STREAM_END and no error
   sentinel, whether or not module_id matches a Module row. *)
C24_CompletionCommitsAndEnds ==
  worker.pc = "done" /\ worker.finished =>
    /\ lesson.content = worker.buffer
    /\ published = Append(worker.buffer, STREAM_END)

(* C25: at the end of a completed stream the Lesson, its Module and its
   Course are IN_PROGRESS when they were NOT_GENERATED, and keep their status
   otherwise. *)
C25_WorkerNeverDowngrades ==
  worker.pc \in {"saved", "done"} /\ worker.finished /\ lesson.module # "none"
    => /\ lesson.status = Advance(worker.before.status)
       /\ lesson.module = Advance(worker.before.module)
       /\ lesson.course = Advance(worker.before.course)

(* C26: the relay never waits on the channel of a worker that has stopped
   and whose messages it has all consumed: it ends. *)
C26_RelayEnds ==
  ~ (worker.pc = "done" /\ relay.pc = "listening" /\ relay.inbox = <<>>)

(* The membership date of a user who is not premium+ACTIVE lies in the
   past. *)
Lapsed(u, now) ==
  /\ ~ IsPremiumActive(u)
  /\ u.membership_active_until # None
  /\ u.membership_active_until < now

(* The membership date of a user who is not premium+ACTIVE is set and not
   ahead of the clock: it lies in the past from the next instant on. *)
Lapsing(u, now) ==
  /\ ~ IsPremiumActive(u)
  /\ u.membership_active_until # None
  /\ u.membership_active_until <= now

(* C30: a consume of a user who is not premium+ACTIVE and whose
   membership_active_until lies in the past raises, charges nothing and
   enqueues nothing, whatever the balance; neither a request, nor a daily
   reset, nor an admin credit update, nor the passing of time takes the user
   out of that condition, only a step that rewrites the membership
   (payment succeeded, reactivation, a new cancellation date, the admin's
   membership update); the subscription-ended handler leaves a free user
   whose date is the current time. *)
C30_LapsedMembershipLocksLedger ==
  [][/\ \A i \in CallIds :
          Lapsed(user, clock) /\ RunsTests(i) =>
            /\ last'.id = i
            /\ last'.out = "raised"
            /\ user' = user
            /\ queue' = queue
     /\ Lapsing(user, clock) /\ ~ MembershipWrite => Lapsing(user', clock')
     /\ handle_subscription_ended =>
          /\ user'.membership_plan = "free"
          /\ Lapsing(user', clock')
          /\ user'.credits = user.credits]_vars

(* A free user with the full daily allowance, whose subscription ended at
   time 0, has been refused the quiz. *)
C30_Witness ==
  /\ last.ep = "r_quiz"
  /\ last.out = "raised"
  /\ user.membership_plan = "free"
  /\ user.membership_active_until = 0
  /\ user.credits = DAILY_CREDITS
  /\ clock >= 1
====
